---- MODULE Spec2Model ----
(***************************************************************************)
(* import_playlist_to_notion.py: enumerate a YouTube playlist with yt-dlp,  *)
(* read the URLs already stored in a Notion database, create a page for     *)
(* every record whose URL is not stored yet.                                *)
(*                                                                          *)
(* Encoding of Python values.  None is the empty tuple; a string, a number  *)
(* or a text v is the one-element tuple <<v>>.  A "text" is a string whose  *)
(* characters matter (titles, dates): a tuple of one-character strings.     *)
(* URLs and ids are TLA+ strings.  A dict is a record; dict.get is Get.     *)
(***************************************************************************)
EXTENDS Integers, Sequences, FiniteSets, TLC

None == <<>>
Val(v) == <<v>>

Get(d, k) == IF k \in DOMAIN d THEN d[k] ELSE None
GetOr(d, k, default) == IF k \in DOMAIN d THEN d[k] ELSE default

\* truth value of an optional string / an optional text
TruthyStr(o) == o # None /\ o[1] # ""
TruthyText(o) == o # None /\ o[1] # <<>>

(***************************************************************************)
(* Bounds of the model.                                                     *)
(***************************************************************************)
MaxEntries == 2      \* entries of the playlist
MaxInitPages == 1    \* pages stored in the database before the first run
MaxRuns == 2         \* runs of the script against the same database
PageSize == 1        \* pages the service returns per query

(***************************************************************************)
(* Texts.                                                                   *)
(***************************************************************************)
UpperAlpha == <<"A","B","C","D","E","F","G","H","I","J","K","L","M",
                "N","O","P","Q","R","S","T","U","V","W","X","Y","Z">>
LowerAlpha == <<"a","b","c","d","e","f","g","h","i","j","k","l","m",
                "n","o","p","q","r","s","t","u","v","w","x","y","z">>

LowerChar(c) ==
    IF \E i \in 1..Len(UpperAlpha) : UpperAlpha[i] = c
    THEN LowerAlpha[CHOOSE i \in 1..Len(UpperAlpha) : UpperAlpha[i] = c]
    ELSE c

\* str.lower()
StrLower(s) == [i \in 1..Len(s) |-> LowerChar(s[i])]

PrivateSentinel ==
    <<"[","p","r","i","v","a","t","e"," ","v","i","d","e","o","]">>
PrivateTitlePrefix ==
    <<"P","r","i","v","a","t","e"," ","V","i","d","e","o"," ","-",">"," ">>
UnknownPlaylist ==
    <<"U","n","k","n","o","w","n"," ","P","l","a","y","l","i","s","t">>
WatchPrefix == "https://www.youtube.com/watch?v="
PlayIcon == "https://www.iconsdb.com/icons/preview/black/play-5-xl.png"

(***************************************************************************)
(* datetime.strptime(s, "%Y%m%d").date().isoformat() on an 8-character      *)
(* text (the tool's upload_date); strptime raises where ValidYmd is false.   *)
(***************************************************************************)
Digits == <<"0","1","2","3","4","5","6","7","8","9">>
IsDigit(c) == \E i \in 1..10 : Digits[i] = c
DigitVal(c) == (CHOOSE i \in 1..10 : Digits[i] = c) - 1
Num2(a, b) == 10 * DigitVal(a) + DigitVal(b)
Num4(s) == 1000 * DigitVal(s[1]) + 100 * DigitVal(s[2]) + Num2(s[3], s[4])
IsLeap(y) == (y % 4 = 0 /\ y % 100 # 0) \/ y % 400 = 0
DaysIn(y, m) ==
    IF m = 2 THEN (IF IsLeap(y) THEN 29 ELSE 28)
    ELSE IF m \in {4, 6, 9, 11} THEN 30 ELSE 31
ValidYmd(s) ==
    /\ Len(s) = 8
    /\ \A i \in 1..8 : IsDigit(s[i])
    /\ Num4(s) >= 1
    /\ Num2(s[5], s[6]) \in 1..12
    /\ Num2(s[7], s[8]) \in 1..DaysIn(Num4(s), Num2(s[5], s[6]))
IsoFormat(s) == SubSeq(s, 1, 4) \o <<"-">> \o SubSeq(s, 5, 6) \o <<"-">> \o SubSeq(s, 7, 8)

(***************************************************************************)
(* run_yt_dlp: the output of the subprocess is blank, text that is not      *)
(* JSON, or JSON.  A JSON value is null or an object.                       *)
(***************************************************************************)
JNull == [type |-> "null"]
JObject(d) == [type |-> "object", fields |-> d]
Blank == [form |-> "blank"]
Garbage == [form |-> "garbage"]
Json(v) == [form |-> "json", value |-> v]

\* fault variant: text that is not JSON is handed on as a null value
run_yt_dlp_null_on_garbage(stdout) ==
    IF stdout.form = "blank" THEN JObject(<<>>)
    ELSE IF stdout.form = "garbage" THEN JNull
    ELSE stdout.value

run_yt_dlp(stdout) ==
    IF stdout.form = "blank" THEN JObject(<<>>)
    ELSE IF stdout.form = "garbage" THEN JObject(<<>>)
    ELSE stdout.value

\* the warning branches of run_yt_dlp
Warns(stdout) == stdout.form \in {"blank", "garbage"}

(***************************************************************************)
(* fetch_video_metadata.  The result is [raised, date, length].             *)
(***************************************************************************)
fetch_video_metadata(stdout) ==
    LET data == run_yt_dlp(stdout) IN
    IF data.type # "object"
    THEN [raised |-> FALSE, og_added_iso |-> None, length_sec |-> None]
    ELSE LET upload_date_str == Get(data.fields, "upload_date") IN
         IF TruthyText(upload_date_str) /\ ~ValidYmd(upload_date_str[1])
         THEN [raised |-> TRUE, og_added_iso |-> None, length_sec |-> None]
         ELSE [raised |-> FALSE,
               og_added_iso |-> IF TruthyText(upload_date_str)
                                THEN Val(IsoFormat(upload_date_str[1]))
                                ELSE None,
               length_sec |-> Get(data.fields, "duration")]

(***************************************************************************)
(* One iteration of the loop of fetch_playlist_videos.                      *)
(***************************************************************************)
IsPlaceholder(entry) == entry = None     \* "not entry": null or {}
VideoId(entry) == Get(entry, "id")
VideoUrl(entry) ==
    IF TruthyStr(VideoId(entry)) THEN Val(WatchPrefix \o VideoId(entry)[1]) ELSE None
RawTitle(entry) == Get(entry, "title")
\* fault variant: the sentinel is compared without lower()
IsPrivateExactCase(entry) ==
    ~TruthyText(RawTitle(entry)) \/ RawTitle(entry)[1] = PrivateSentinel

IsPrivate(entry) ==
    ~TruthyText(RawTitle(entry)) \/ StrLower(RawTitle(entry)[1]) = PrivateSentinel
PrivateTitle(playlist_name) == Val(PrivateTitlePrefix \o playlist_name)
\* fault variant: the metadata call is not held back for private titles
NeedsMetadataIgnoringPrivate(entry) ==
    ~IsPlaceholder(entry) /\ VideoUrl(entry) # None

NeedsMetadata(entry) ==
    ~IsPlaceholder(entry) /\ ~IsPrivate(entry) /\ VideoUrl(entry) # None

PlaceholderRecord(playlist_name) ==
    [title |-> PrivateTitle(playlist_name), url |-> None, og_added_iso |-> None,
     length_sec |-> None, private |-> TRUE]
VideoRecord(entry, playlist_name, meta) ==
    [title |-> IF IsPrivate(entry) THEN PrivateTitle(playlist_name) ELSE RawTitle(entry),
     url |-> VideoUrl(entry),
     og_added_iso |-> meta.og_added_iso,
     length_sec |-> meta.length_sec,
     private |-> IsPrivate(entry)]
NoMetadata == [raised |-> FALSE, og_added_iso |-> None, length_sec |-> None]

(***************************************************************************)
(* Module-level configuration (lines 17-37).  TOPIC_LIST is a text; TOPIC   *)
(* is its comma-separated pieces, stripped, the empty ones dropped.         *)
(***************************************************************************)
RECURSIVE Split(_, _)
\* s.split(","): cur is the piece being read
Split(s, cur) ==
    IF s = <<>> THEN <<cur>>
    ELSE IF Head(s) = "," THEN <<cur>> \o Split(Tail(s), <<>>)
    ELSE Split(Tail(s), Append(cur, Head(s)))
RECURSIVE Strip(_)
Strip(t) ==
    IF t = <<>> THEN t
    ELSE IF Head(t) = " " THEN Strip(Tail(t))
    ELSE IF t[Len(t)] = " " THEN Strip(SubSeq(t, 1, Len(t) - 1))
    ELSE t
TOPIC(cfg) ==
    IF TruthyText(cfg.TOPIC_LIST)
    THEN LET pieces == Split(cfg.TOPIC_LIST[1], <<>>)
             stripped == [i \in 1..Len(pieces) |-> Strip(pieces[i])]
         IN SelectSeq(stripped, LAMBDA t : t # <<>>)
    ELSE <<>>

\* fault variant: the check forgets TOPIC_LIST
ConfigMissingForgetsTopics(cfg) ==
    \/ ~TruthyStr(cfg.NOTION_TOKEN)
    \/ ~TruthyStr(cfg.DATABASE_ID)
    \/ ~TruthyStr(cfg.PLAYLIST_ID)
    \/ ~TruthyStr(cfg.PRIORITY)

ConfigMissing(cfg) ==
    \/ ~TruthyStr(cfg.NOTION_TOKEN)
    \/ ~TruthyStr(cfg.DATABASE_ID)
    \/ ~TruthyStr(cfg.PLAYLIST_ID)
    \/ ~TruthyStr(cfg.PRIORITY)
    \/ cfg.TOPIC_LIST = None

Unset ==
    [NOTION_TOKEN |-> None, DATABASE_ID |-> None, PLAYLIST_ID |-> None,
     PRIORITY |-> None, TOPIC_LIST |-> None]
AllSet ==
    [NOTION_TOKEN |-> Val("secret"), DATABASE_ID |-> Val("db"),
     PLAYLIST_ID |-> Val("PL1"), PRIORITY |-> Val("High"),
     TOPIC_LIST |-> Val(<<"m","l",","," ","a","i",",">>)]
StrVars == {"NOTION_TOKEN", "DATABASE_ID", "PLAYLIST_ID", "PRIORITY"}
\* the environments a run may start in: complete, one variable unset or
\* empty, or nothing set at all
Environments ==
    {AllSet, Unset}
    \cup {[AllSet EXCEPT ![k] = None] : k \in StrVars \cup {"TOPIC_LIST"}}
    \cup {[AllSet EXCEPT ![k] = Val("")] : k \in StrVars}
    \cup {[AllSet EXCEPT !.TOPIC_LIST = Val(<<>>)]}

(***************************************************************************)
(* The playlist on YouTube and what yt-dlp may print for it.                *)
(***************************************************************************)
Talk == <<"T","a","l","k">>
PrivateVideo == <<"[","P","r","i","v","a","t","e"," ","v","i","d","e","o","]">>
PlaylistTitle == <<"M","i","x">>
Ids == {None, Val("abc123"), Val("xyz789")}
Titles == {None, Val(<<>>), Val(PrivateVideo), Val(Talk)}
Entries == {None} \cup [id : Ids, title : Titles]
SeqsUpTo(S, n) == UNION {[1..k -> S] : k \in 0..n}
Playlists == SeqsUpTo(Entries, MaxEntries)
\* the playlists of the runs against a database: a placeholder, a public
\* video and a private video with an id
CoreEntries ==
    {None,
     [id |-> Val("abc123"), title |-> Val(Talk)],
     [id |-> Val("xyz789"), title |-> Val(PrivateVideo)]}
\* the three-record example: a placeholder, a private video with an id and
\* a public video
ExamplePlaylist ==
    <<None,
      [id |-> Val("xyz789"), title |-> Val(PrivateVideo)],
      [id |-> Val("abc123"), title |-> Val(Talk)]>>
CorePlaylists == SeqsUpTo(CoreEntries, MaxEntries) \cup {ExamplePlaylist}

FlatOutputs(pl) ==
    {Blank, Garbage, Json(JNull),
     Json(JObject([title |-> Val(PlaylistTitle), entries |-> pl]))}
MetaOutputs ==
    {Blank, Garbage, Json(JNull),
     Json(JObject([upload_date |-> Val(<<"2","0","2","3","0","1","1","5">>),
                   duration |-> Val(212)])),
     Json(JObject([upload_date |-> Val(<<"2","0","2","3","1","3","4","0">>),
                   duration |-> Val(212)]))}

(***************************************************************************)
(* The Notion database: a sequence of pages, returned PageSize at a time.   *)
(***************************************************************************)
\* the URL of a page stored before the first run: empty, or that of a video
StoredUrls == {Val(""), Val(WatchPrefix \o "abc123")}
StoredPage(u) ==
    [Name |-> Val(Talk), Priority |-> Val("Low"), Topic |-> <<>>,
     PlaylistName |-> PlaylistTitle, Status |-> None, URL |-> u,
     OGADDED |-> None, LengthSec |-> None, icon |-> None, by |-> 0]
InitialDatabases == SeqsUpTo({StoredPage(u) : u \in StoredUrls}, MaxInitPages)

Min(a, b) == IF a < b THEN a ELSE b
\* notion.databases.query(database_id, start_cursor)
Query(db, start_cursor) ==
    LET first == IF start_cursor = None THEN 1 ELSE start_cursor[1]
        last == Min(first + PageSize - 1, Len(db))
    IN [results |-> SubSeq(db, first, last),
        has_more |-> last < Len(db),
        next_cursor |-> IF last < Len(db) THEN Val(last + 1) ELSE None]

\* fault variant: the URL property is added whether or not it is empty
PageUrlsUnfiltered(results) == {results[i].URL : i \in 1..Len(results)}

\* the URLs one response adds to existing_urls (lines 132-135)
PageUrls(results) ==
    {results[i].URL : i \in {j \in 1..Len(results) : TruthyStr(results[j].URL)}}

\* fault variant: the URL property is left out of the page
NewPageWithoutUrl(v, name, cfg, r) ==
    [Name |-> v.title,
     Priority |-> cfg.PRIORITY,
     Topic |-> TOPIC(cfg),
     PlaylistName |-> name,
     Status |-> IF v.private THEN Val("On Hold") ELSE None,
     URL |-> None,
     OGADDED |-> IF TruthyText(v.og_added_iso) THEN v.og_added_iso ELSE None,
     LengthSec |-> IF v.length_sec # None THEN v.length_sec ELSE None,
     icon |-> IF v.private THEN Val("lock") ELSE Val(PlayIcon),
     by |-> r]

\* the page add_videos_to_notion creates for record v (lines 156-186)
NewPage(v, name, cfg, r) ==
    [Name |-> v.title,
     Priority |-> cfg.PRIORITY,
     Topic |-> TOPIC(cfg),
     PlaylistName |-> name,
     Status |-> IF v.private THEN Val("On Hold") ELSE None,
     URL |-> IF TruthyStr(v.url) THEN v.url ELSE None,
     OGADDED |-> IF TruthyText(v.og_added_iso) THEN v.og_added_iso ELSE None,
     LengthSec |-> IF v.length_sec # None THEN v.length_sec ELSE None,
     icon |-> IF v.private THEN Val("lock") ELSE Val(PlayIcon),
     by |-> r]

\* fault variant: a record without url is taken for a duplicate
AlreadyExistsOrNoUrl(v, urls) == v.url = None \/ v.url \in urls

\* line 152
AlreadyExists(v, urls) == v.url \in urls

(***************************************************************************)
(* State.  playlist and remote are the world; the rest is one run of the    *)
(* script: its globals, the locals of its three functions, what it logged.  *)
(***************************************************************************)
VARIABLES
    playlist,       \* the entries of the playlist on YouTube
    remote,         \* the pages of the Notion database, in query order
    run,            \* number of the current run
    prev,           \* flat_entries of the previous run if it ran to its end
    pc,             \* where the run is
    error,          \* the exception that ended the run, or None
    config,         \* the module globals read from the environment
    stdout,         \* fetch_playlist_videos: the latest yt-dlp output
    playlist_name, flat_entries, videos,
    existing_urls, next_cursor,
    idx,            \* loop position in flat_entries / videos
    added_count,
    warned,         \* run_yt_dlp logged a warning in this run
    reported,       \* the count of the final log line, or None
    trace           \* external calls and skips of this run, in order

world == <<playlist, remote, run, prev>>
locals == <<playlist_name, flat_entries, videos, existing_urls, next_cursor,
            idx, added_count>>
vars == <<playlist, remote, run, prev, pc, error, config, stdout, playlist_name,
          flat_entries, videos, existing_urls, next_cursor, idx, added_count,
          warned, reported, trace>>

FreshRun ==
    /\ pc = "start"
    /\ error = None
    /\ config = Unset
    /\ stdout = None
    /\ playlist_name = <<>>
    /\ flat_entries = <<>>
    /\ videos = <<>>
    /\ existing_urls = {}
    /\ next_cursor = None
    /\ idx = 1
    /\ added_count = 0
    /\ warned = FALSE
    /\ reported = None
    /\ trace = <<>>

Init ==
    /\ playlist \in CorePlaylists
    /\ remote \in InitialDatabases
    /\ run = 1
    /\ prev = None
    /\ FreshRun

\* the enumeration alone, over every shape of entry
InitEnum ==
    /\ playlist \in Playlists
    /\ remote = <<>>
    /\ run = 1
    /\ prev = None
    /\ FreshRun

Raise(e) == pc' = "raised" /\ error' = Val(e)

(***************************************************************************)
(* Lines 17-40: read the environment, check it, build the client.           *)
(***************************************************************************)
LoadConfig ==
    /\ pc = "start"
    /\ \E env \in Environments :
        /\ config' = env
        /\ IF ConfigMissing(env)
           THEN Raise("ValueError")
           ELSE pc' = "flat" /\ error' = error
    /\ UNCHANGED <<world, stdout, locals, warned, reported, trace>>

(***************************************************************************)
(* Lines 80-84: the flat listing.                                           *)
(***************************************************************************)
FlatListing ==
    /\ pc = "flat"
    /\ \E out \in FlatOutputs(playlist) :
        LET flat_data == run_yt_dlp(out) IN
        /\ stdout' = [of |-> 0, form |-> out.form]
        /\ warned' = (warned \/ Warns(out))
        /\ trace' = Append(trace, [op |-> "flat", ok |-> TRUE])
        /\ IF flat_data.type # "object"
           THEN /\ Raise("AttributeError")
                /\ UNCHANGED <<playlist_name, flat_entries>>
           ELSE /\ pc' = "enumerate" /\ error' = error
                /\ playlist_name' = GetOr(flat_data.fields, "title", Val(UnknownPlaylist))[1]
                /\ flat_entries' = GetOr(flat_data.fields, "entries", <<>>)
    /\ videos' = <<>>
    /\ idx' = 1
    /\ UNCHANGED <<world, config, existing_urls, next_cursor, added_count, reported>>

(***************************************************************************)
(* Lines 86-117: one entry of the listing.                                  *)
(***************************************************************************)
EnumerateEntry ==
    /\ pc = "enumerate"
    /\ idx <= Len(flat_entries)
    /\ LET entry == flat_entries[idx] IN
       IF IsPlaceholder(entry)
       THEN /\ videos' = Append(videos, PlaceholderRecord(playlist_name))
            /\ idx' = idx + 1
            /\ UNCHANGED <<pc, error, stdout, warned, trace>>
       ELSE IF ~NeedsMetadata(entry)
       THEN /\ videos' = Append(videos, VideoRecord(entry, playlist_name, NoMetadata))
            /\ idx' = idx + 1
            /\ UNCHANGED <<pc, error, stdout, warned, trace>>
       ELSE \E out \in MetaOutputs :
            LET meta == fetch_video_metadata(out) IN
            /\ stdout' = [of |-> idx, form |-> out.form]
            /\ warned' = (warned \/ Warns(out))
            /\ trace' = Append(trace, [op |-> "meta", ok |-> TRUE, i |-> idx])
            /\ IF meta.raised
               THEN Raise("ValueError") /\ UNCHANGED <<videos, idx>>
               ELSE /\ videos' = Append(videos, VideoRecord(entry, playlist_name, meta))
                    /\ idx' = idx + 1
                    /\ UNCHANGED <<pc, error>>
    /\ UNCHANGED <<world, config, playlist_name, flat_entries, existing_urls,
                   next_cursor, added_count, reported>>

\* lines 119-126: the listing is done; fetch_existing_urls starts
EnumerateDone ==
    /\ pc = "enumerate"
    /\ idx > Len(flat_entries)
    /\ pc' = "query"
    /\ stdout' = None
    /\ existing_urls' = {}
    /\ next_cursor' = None
    /\ UNCHANGED <<world, error, config, playlist_name, flat_entries, videos, idx,
                   added_count, warned, reported, trace>>

(***************************************************************************)
(* Lines 128-142: one query of fetch_existing_urls.  The call may fail.     *)
(***************************************************************************)
QueryPage ==
    /\ pc = "query"
    /\ LET query == Query(remote, next_cursor) IN
       /\ trace' = Append(trace, [op |-> "query", ok |-> TRUE,
                                  start_cursor |-> next_cursor,
                                  has_more |-> query.has_more,
                                  next_cursor |-> query.next_cursor])
       /\ existing_urls' = existing_urls \cup PageUrls(query.results)
       /\ IF ~query.has_more
          THEN pc' = "add" /\ idx' = 1 /\ added_count' = 0 /\ UNCHANGED next_cursor
          ELSE next_cursor' = query.next_cursor /\ UNCHANGED <<pc, idx, added_count>>
    /\ UNCHANGED <<world, error, config, stdout, playlist_name, flat_entries, videos,
                   warned, reported>>

QueryFails ==
    /\ pc = "query"
    /\ trace' = Append(trace, [op |-> "query", ok |-> FALSE,
                               start_cursor |-> next_cursor,
                               has_more |-> FALSE, next_cursor |-> None])
    /\ Raise("APIResponseError")
    /\ UNCHANGED <<world, config, stdout, locals, warned, reported>>

(***************************************************************************)
(* Lines 151-188: one record of add_videos_to_notion.                       *)
(***************************************************************************)
SkipVideo ==
    /\ pc = "add"
    /\ idx <= Len(videos)
    /\ AlreadyExists(videos[idx], existing_urls)
    /\ trace' = Append(trace, [op |-> "skip", ok |-> TRUE, i |-> idx])
    /\ idx' = idx + 1
    /\ UNCHANGED <<world, pc, error, config, stdout, playlist_name, flat_entries,
                   videos, existing_urls, next_cursor, added_count, warned, reported>>

\* fault variant: the url of a created page joins the existing-URL set
CreatePageRemembering ==
    /\ pc = "add"
    /\ idx <= Len(videos)
    /\ ~AlreadyExists(videos[idx], existing_urls)
    /\ trace' = Append(trace, [op |-> "create", ok |-> TRUE, i |-> idx])
    /\ remote' = Append(remote, NewPage(videos[idx], playlist_name, config, run))
    /\ existing_urls' = existing_urls \cup {videos[idx].url}
    /\ added_count' = added_count + 1
    /\ idx' = idx + 1
    /\ UNCHANGED <<playlist, run, prev, pc, error, config, stdout, playlist_name,
                   flat_entries, videos, next_cursor, warned, reported>>

CreatePage ==
    /\ pc = "add"
    /\ idx <= Len(videos)
    /\ ~AlreadyExists(videos[idx], existing_urls)
    /\ trace' = Append(trace, [op |-> "create", ok |-> TRUE, i |-> idx])
    /\ remote' = Append(remote, NewPage(videos[idx], playlist_name, config, run))
    /\ added_count' = added_count + 1
    /\ idx' = idx + 1
    /\ UNCHANGED <<playlist, run, prev, pc, error, config, stdout, playlist_name,
                   flat_entries, videos, existing_urls, next_cursor, warned, reported>>

\* fault variant: the failure is logged and the loop goes on with the next record
CreateFailsAndContinues ==
    /\ pc = "add"
    /\ idx <= Len(videos)
    /\ ~AlreadyExists(videos[idx], existing_urls)
    /\ trace' = Append(trace, [op |-> "create", ok |-> FALSE, i |-> idx])
    /\ idx' = idx + 1
    /\ UNCHANGED <<world, pc, error, config, stdout, playlist_name, flat_entries,
                   videos, existing_urls, next_cursor, added_count, warned, reported>>

CreateFails ==
    /\ pc = "add"
    /\ idx <= Len(videos)
    /\ ~AlreadyExists(videos[idx], existing_urls)
    /\ trace' = Append(trace, [op |-> "create", ok |-> FALSE, i |-> idx])
    /\ Raise("APIResponseError")
    /\ UNCHANGED <<world, config, stdout, locals, warned, reported>>

\* line 190
ReportDone ==
    /\ pc = "add"
    /\ idx > Len(videos)
    /\ reported' = Val(added_count)
    /\ pc' = "done"
    /\ UNCHANGED <<world, error, config, stdout, locals, warned, trace>>

(***************************************************************************)
(* The script is started again, against the same playlist and database.     *)
(***************************************************************************)
NextRun ==
    /\ pc \in {"done", "raised"}
    /\ run < MaxRuns
    /\ run' = run + 1
    /\ prev' = IF pc = "done" THEN Val(flat_entries) ELSE None
    /\ pc' = "start"
    /\ error' = None
    /\ config' = Unset
    /\ stdout' = None
    /\ playlist_name' = <<>>
    /\ flat_entries' = <<>>
    /\ videos' = <<>>
    /\ existing_urls' = {}
    /\ next_cursor' = None
    /\ idx' = 1
    /\ added_count' = 0
    /\ warned' = FALSE
    /\ reported' = None
    /\ trace' = <<>>
    /\ UNCHANGED <<playlist, remote>>

Next ==
    \/ LoadConfig
    \/ FlatListing
    \/ EnumerateEntry
    \/ EnumerateDone
    \/ QueryPage
    \/ QueryFails
    \/ SkipVideo
    \/ CreatePage
    \/ CreateFails
    \/ ReportDone
    \/ NextRun

Spec == Init /\ [][Next]_vars

NextEnum ==
    \/ LoadConfig
    \/ FlatListing
    \/ EnumerateEntry
    \/ EnumerateDone

SpecEnum == InitEnum /\ [][NextEnum]_vars

(***************************************************************************)
(* What the claims speak of.                                                *)
(***************************************************************************)
Calls(op) == {k \in 1..Len(trace) : trace[k].op = op}
CallsFor(op, i) == {k \in Calls(op) : trace[k].i = i}
Queries == SelectSeq(trace, LAMBDA c : c.op = "query")
CreatedInRun == {k \in 1..Len(remote) : remote[k].by = run}
CreatedEver == {k \in 1..Len(remote) : remote[k].by > 0}
\* the non-empty URLs of the pages the database held when the run started
UrlsBeforeRun ==
    {remote[k].URL : k \in {j \in 1..Len(remote) :
        remote[j].by # run /\ remote[j].URL # None /\ remote[j].URL # Val("")}}
UrlLess == {i \in 1..Len(videos) : videos[i].url = None}
AbcUrl == Val("https://www.youtube.com/watch?v=abc123")
XyzUrl == Val("https://www.youtube.com/watch?v=xyz789")

(***************************************************************************)
(* C1.  No two pages created by the script, in one run or across runs,      *)
(* carry the same non-absent URL.                                           *)
(***************************************************************************)
C1_OnePagePerUrl ==
    \A j, k \in CreatedEver :
        (j # k /\ remote[j].URL # None) => remote[j].URL # remote[k].URL

(***************************************************************************)
(* C2.  As claimed: a run that follows a completed run over the same        *)
(* listing creates no page.                                                 *)
(***************************************************************************)
SecondRunDone == pc = "done" /\ run > 1 /\ prev = Val(flat_entries)

C2_SecondRunCreatesNothing ==
    SecondRunDone => (added_count = 0 /\ CreatedInRun = {})

(***************************************************************************)
(* C2, amended.  A run that follows a completed run over the same listing   *)
(* creates no page for a record that has a URL; it creates exactly one page *)
(* for each record without URL, and nothing if there is no such record.     *)
(***************************************************************************)
C2_SecondRunCreatesOnlyUrlLess ==
    SecondRunDone =>
        /\ \A i \in 1..Len(videos) :
              Cardinality(CallsFor("create", i)) = (IF i \in UrlLess THEN 1 ELSE 0)
        /\ added_count = Cardinality(UrlLess)
        /\ \A k \in CreatedInRun : remote[k].URL = None

C2_Witness ==
    /\ SecondRunDone
    /\ UrlLess # {}
    /\ \E i \in 1..Len(videos) : videos[i].url # None
    /\ Calls("skip") # {}

(***************************************************************************)
(* C3.  A run whose environment lacks one of the five variables ends with   *)
(* the ValueError of the configuration check and has made no external call. *)
(***************************************************************************)
SomeUnset(cfg) == \E k \in DOMAIN cfg : cfg[k] = None

C3_ConfigAbortsBeforeCalls ==
    (pc # "start" /\ SomeUnset(config)) =>
        /\ pc = "raised"
        /\ error = Val("ValueError")
        /\ trace = <<>>
        /\ CreatedInRun = {}

C3_Witness ==
    /\ pc = "raised"
    /\ config.TOPIC_LIST = None
    /\ config.NOTION_TOKEN # None
    /\ run > 1
    /\ remote # <<>>

(***************************************************************************)
(* C4.  The first query carries no cursor, every further query carries the  *)
(* next_cursor of the response before it, which said has_more; the queries  *)
(* stop at the first response without has_more, and existing_urls is then   *)
(* exactly the set of non-empty URLs of the pages of the database.          *)
(***************************************************************************)
C4_ExistingUrlsExact ==
    /\ Len(Queries) >= 1 => Queries[1].start_cursor = None
    /\ \A k \in 2..Len(Queries) :
          /\ Queries[k - 1].ok /\ Queries[k - 1].has_more
          /\ Queries[k].start_cursor = Queries[k - 1].next_cursor
    /\ pc \in {"add", "done"} =>
          /\ Len(Queries) >= 1
          /\ Queries[Len(Queries)].ok /\ ~Queries[Len(Queries)].has_more
          /\ existing_urls = UrlsBeforeRun

C4_Witness ==
    /\ pc = "add"
    /\ Len(Queries) >= 2
    /\ AbcUrl \in existing_urls
    /\ \E k \in 1..Len(remote) : remote[k].URL = Val("")
    /\ \E k \in 1..Len(remote) : remote[k].URL = None

(***************************************************************************)
(* C5.  While add_videos_to_notion runs and when it has returned: a record  *)
(* it has passed was skipped, without request, iff its url is in the        *)
(* existing-URL set, and else caused exactly one creation request; at the   *)
(* end created + skipped = records and the reported count is the number of  *)
(* pages created.  The example: existing {abc123}, records (no URL,         *)
(* private xyz789, public abc123) gives added 2, skipped 1.                 *)
(***************************************************************************)
C5_SkipIffExisting ==
    pc \in {"add", "done"} =>
        /\ \A i \in 1..Len(videos) :
              LET skips == Cardinality(CallsFor("skip", i))
                  creates == Cardinality(CallsFor("create", i))
              IN IF i >= idx THEN skips = 0 /\ creates = 0
                 ELSE IF videos[i].url \in existing_urls
                      THEN skips = 1 /\ creates = 0
                      ELSE skips = 0 /\ creates = 1
        /\ Cardinality(CreatedInRun) = Cardinality(Calls("create"))
        /\ added_count = Cardinality(Calls("create"))
        /\ pc = "done" =>
              /\ Cardinality(Calls("create")) + Cardinality(Calls("skip")) = Len(videos)
              /\ reported = Val(Cardinality(CreatedInRun))
        /\ (pc = "done" /\ flat_entries = ExamplePlaylist /\ existing_urls = {AbcUrl}) =>
              (reported = Val(2) /\ Cardinality(Calls("skip")) = 1)

C5_Witness ==
    /\ pc = "done"
    /\ flat_entries = ExamplePlaylist
    /\ existing_urls = {AbcUrl}
    /\ videos[1].url = None /\ videos[2].url = XyzUrl /\ videos[3].url = AbcUrl
    /\ reported = Val(2)

(***************************************************************************)
(* C6.  When the latest yt-dlp output was blank or not JSON, the run has    *)
(* not ended: it is still enumerating, with no error, and the call yielded  *)
(* no data: no entries for the listing, no date and no length for the       *)
(* video.                                                                   *)
(***************************************************************************)
C6_BadOutputIsNoData ==
    (stdout # None /\ stdout.form \in {"blank", "garbage"}) =>
        /\ pc = "enumerate"
        /\ error = None
        /\ warned
        /\ IF stdout.of = 0
           THEN flat_entries = <<>> /\ videos = <<>>
           ELSE /\ Len(videos) >= stdout.of
                /\ videos[stdout.of].og_added_iso = None
                /\ videos[stdout.of].length_sec = None

\* a run that recovered from a bad output went on to query and to create
C6_Witness ==
    /\ pc = "done"
    /\ warned
    /\ Calls("meta") # {}
    /\ Calls("query") # {}
    /\ \E k \in CreatedInRun : remote[k].URL = AbcUrl /\ remote[k].OGADDED = None

(***************************************************************************)
(* C7.  As claimed: a non-null entry whose title is absent or is the        *)
(* sentinel in any letter case gives a private record whose url is the      *)
(* watch URL of its id, or absent without id; any other title gives a       *)
(* record that is not private and keeps the title.                          *)
(***************************************************************************)
TitleAbsent(entry) == Get(entry, "title") = None
TitleIsSentinel(entry) ==
    ~TitleAbsent(entry) /\ StrLower(Get(entry, "title")[1]) = PrivateSentinel
TitleEmpty(entry) == Get(entry, "title") = Val(<<>>)
UrlFromId(entry) ==
    IF Get(entry, "id") = None THEN None
    ELSE Val("https://www.youtube.com/watch?v=" \o Get(entry, "id")[1])

C8_MetadataOnlyForPublicWithUrl ==
    /\ \A i \in 1..Len(flat_entries) :
          CallsFor("meta", i) # {} =>
              /\ flat_entries[i] # None
              /\ UrlFromId(flat_entries[i]) # None
              /\ ~(TitleAbsent(flat_entries[i]) \/ TitleEmpty(flat_entries[i])
                     \/ TitleIsSentinel(flat_entries[i]))
              /\ Cardinality(CallsFor("meta", i)) = 1
              /\ i <= Len(videos) => (videos[i].url # None /\ ~videos[i].private)
    /\ \A i \in 1..Len(videos) :
          /\ CallsFor("meta", i) = {} =>
                (videos[i].og_added_iso = None /\ videos[i].length_sec = None)
          /\ (videos[i].private \/ videos[i].url = None) => CallsFor("meta", i) = {}
          /\ flat_entries[i] = None =>
                (videos[i].private /\ videos[i].url = None /\ CallsFor("meta", i) = {})

C8_Witness ==
    /\ pc = "query"
    /\ Len(videos) = 2
    /\ CallsFor("meta", 1) # {} /\ videos[1].length_sec = Val(212)
    /\ videos[1].og_added_iso = Val(<<"2","0","2","3","-","0","1","-","1","5">>)
    /\ CallsFor("meta", 2) = {} /\ videos[2].private /\ videos[2].url = XyzUrl

(***************************************************************************)
(* C9.  A failed remote call is the last call of its run and is made once:  *)
(* the run has ended with the error, the pages created before it are in     *)
(* the database, no request follows and no count is reported.               *)
(***************************************************************************)
C9_RemoteFailureEndsRun ==
    /\ \A k \in 1..Len(trace) : ~trace[k].ok => k = Len(trace)
    /\ (trace # <<>> /\ ~trace[Len(trace)].ok) =>
          /\ pc = "raised"
          /\ error = Val("APIResponseError")
          /\ reported = None
          /\ Cardinality(CreatedInRun) = added_count
          /\ trace[Len(trace)].op = "create" =>
                /\ Cardinality(CallsFor("create", trace[Len(trace)].i)) = 1
                /\ \A i \in 1..Len(videos) :
                      i > trace[Len(trace)].i => CallsFor("create", i) = {}
                /\ Cardinality(CreatedInRun) = Cardinality(Calls("create")) - 1

C9_Witness ==
    /\ pc = "raised"
    /\ Len(videos) = 3
    /\ trace[Len(trace)].op = "create" /\ ~trace[Len(trace)].ok
    /\ trace[Len(trace)].i = 2
    /\ Cardinality(CreatedInRun) = 1
    /\ videos[3].url \notin existing_urls

(***************************************************************************)
(* C10.  The calls of a run come in the order listing, metadata, queries,   *)
(* creations: the listing is the first call, no metadata call follows a     *)
(* query, no query follows a creation or a skip; and from the last query    *)
(* on the existing-URL set is the one read from the database, whatever the  *)
(* run inserts.                                                             *)
(***************************************************************************)
Phase(op) ==
    IF op = "flat" THEN 1 ELSE IF op = "meta" THEN 2 ELSE IF op = "query" THEN 3 ELSE 4

C10_CallsInOrder ==
    /\ \A k \in 1..Len(trace) : (trace[k].op = "flat") <=> (k = 1)
    /\ \A j, k \in 1..Len(trace) : j < k => Phase(trace[j].op) <= Phase(trace[k].op)
    /\ Calls("meta") # {} => pc \in {"enumerate", "query", "add", "done", "raised"}
    /\ pc = "enumerate" => Calls("query") \cup Calls("create") \cup Calls("skip") = {}
    /\ pc = "query" => Calls("create") \cup Calls("skip") = {}
    /\ (Calls("create") \cup Calls("skip") # {}) =>
          /\ existing_urls = UrlsBeforeRun
          /\ ~Queries[Len(Queries)].has_more

C10_Witness ==
    /\ pc = "done"
    /\ Calls("meta") # {}
    /\ Len(Queries) >= 2
    /\ \E k \in CreatedInRun : remote[k].URL \notin existing_urls /\ remote[k].URL # None
    /\ Calls("skip") # {}

====
